---- MODULE Spec2Model ----
(***************************************************************************)
(* netcoredbg, src/debug/netcoredbg/main.cpp: the process lifecycle        *)
(* registry (g_process, g_processMutex, g_processCV), the managed callback *)
(* object (ManagedCallback), the debugger facade (Debugger::Attach /       *)
(* Detach / TerminateProcess) and SafeReadMemory.                          *)
(***************************************************************************)
EXTENDS Integers, Sequences, FiniteSets, TLC

(***************************************************************************)
(* Bounds of the model.                                                    *)
(***************************************************************************)
\* successful attaches over a run; process handles are 1..MaxAttach
MaxAttach == 2
\* execution contexts, besides the command thread, that call WaitProcessExited
NumWaiters == 2
\* notifications the runtime raises over a run of the dispatcher
MaxEvents == 3
\* managed thread ids are 1..MaxThreadId
MaxThreadId == 2
\* widths, scaled down: TADDR and size_t have AddrBits bits, ULONG has UlongBits,
\* and an OS page has 2^PageBits bytes
AddrBits == 4
UlongBits == 3
PageBits == 2
\* longest string given to EscapeMIValue
MaxStrLen == 3
\* most references to the callback object at one time
MaxRefs == 6

(***************************************************************************)
(* Program constants and identities.                                       *)
(***************************************************************************)
\* nullptr, as the value of g_process, m_pProcess and m_pDebug
NoProcess == 0
\* g_processMutex when no thread holds it
Unlocked == -1
\* the thread that runs main() and CommandLoop()
CmdThread == 0
Waiters == 1..NumWaiters
\* the runtime's notification thread, which calls the ManagedCallback methods
CbThread == NumWaiters + 1
Threads == {CmdThread, CbThread} \cup Waiters
\* the contexts that may be inside WaitProcessExited
WaitCallers == {CmdThread} \cup Waiters
Handles == 1..MaxAttach
ThreadIds == 1..MaxThreadId

VARIABLES
    \* ---- the lifecycle registry (main.cpp:29-31)
    g_process,          \* the registered ICorDebugProcess, or NoProcess
    g_processMutex,     \* the thread that last locked it, or Unlocked
    cvWaiting,          \* threads blocked inside g_processCV.wait
    \* ---- the facade (Debugger)
    m_pProcess,
    m_pDebug,
    \* ---- last stopped thread and the output stream
    g_lastStoppedThreadId,
    stdoutLine,         \* the line most recently written to stdout
    \* ---- control state
    pc,                 \* where each thread is
    nested,             \* TerminateProcess was called from AttachToProcess
    cbEv,               \* the notification the callback thread handles (or handled last)
    g_outMutex,         \* the thread that holds g_outMutex, or Unlocked
    writing,            \* the threads that are inside a write to stdout
    strArg,             \* the argument of the EscapeMIValue call
    escaped,            \* what the call returned, or <<>> before it has
    m_refCount,         \* ManagedCallback::m_refCount
    deleted,            \* the ManagedCallback object has been destroyed
    refCall,            \* the last IUnknown call on it: name, riid, status, count before
    held,               \* per holder: the references to it that the holder owns
    crashed,            \* the program has died of a null dereference
    \* ---- the runtime and the debuggees
    queue,              \* notifications the runtime has raised and not yet delivered
    procState,          \* per handle: none, attaching, running, stopped, exited, detached
    killed,             \* handles on which Terminate(0) succeeded
    nextProc,           \* the handle the next successful attach returns
    nEvents,            \* notifications raised so far by RuntimeNotify
    \* ---- calls made on collaborators
    continueCalls,      \* Continue calls issued by the dispatcher so far
    continueAtEntry,    \* continueCalls when the current handler was entered
    evalNotifyCalls,    \* NotifyEvalComplete calls issued by the current handler
    printCalls,         \* lines the current handler has written to stdout
    opCalls,            \* native calls of the facade operation in progress (or last)
    readCalls,          \* sizes SafeReadMemory asked of ICorDebugProcess::ReadMemory
    readArgs,           \* <<offset, cb>> of the SafeReadMemory call
    readResult,         \* <<returned BOOL, *lpcbBytesRead>> of the call, or <<>>
    \* ---- history
    lastOp,             \* the facade operation in progress (or last returned)
    opResult,           \* its status, "" while none has returned
    entryReg,           \* g_process when the operation was called
    entrySession,       \* <<m_pProcess, m_pDebug>> when the operation was called
    exitHandled,        \* handles whose ExitProcess notification ran the unregister step
    terminated,         \* handles whose TerminateProcess call has returned S_OK
    regRefs             \* per handle: references ProcessCreated took and nobody released

regVars == <<g_process, g_processMutex, cvWaiting>>
facadeVars == <<m_pProcess, m_pDebug>>
outVars == <<g_lastStoppedThreadId, stdoutLine>>
envVars == <<queue, procState, killed, nextProc, nEvents>>
dispVars == <<continueCalls, continueAtEntry, evalNotifyCalls, printCalls>>
readVars == <<readCalls, readArgs, readResult>>
emitVars == <<g_outMutex, writing>>
escVars == <<strArg, escaped>>
refVars == <<m_refCount, deleted, refCall, held>>
opVars == <<lastOp, opResult, opCalls, entryReg, entrySession>>
histVars == <<exitHandled, terminated, regRefs>>
vars == <<regVars, facadeVars, outVars, pc, nested, cbEv, crashed, envVars,
          dispVars, readVars, escVars, refVars, emitVars, opVars, histVars>>


(***************************************************************************)
(* Values.                                                                 *)
(***************************************************************************)
\* a notification: the callback's name and its arguments
Ev(kind, proc, tid, unhandled) ==
    [kind |-> kind, proc |-> proc, tid |-> tid, unhandled |-> unhandled]
NoEvent == Ev("none", NoProcess, 0, FALSE)

\* a line written to stdout: the printf format and its arguments
Line(form, tid, id, text) ==
    [form |-> form, tid |-> tid, id |-> id, text |-> text]
NoLine == Line("", 0, 0, <<>>)

\* a call of QueryInterface, AddRef or Release on the callback object: its
\* name, the identity asked for, the status or count returned, whether
\* *ppInterface was set, and m_refCount before the call
RefCall(name, riid, status, iface, before) ==
    [name |-> name, riid |-> riid, status |-> status, iface |-> iface,
     before |-> before]

NoCall == RefCall("", "", "", FALSE, 0)

\* who owns references to the callback object: the Debugger that was given the
\* new object (main.cpp:804, released at 637) and the runtime it is handed to
Holders == {"Debugger", "Runtime"}

Alive(h) == procState[h] \in {"attaching", "running", "stopped"}

(***************************************************************************)
(* std::mutex on g_processMutex.  lock() blocks until the mutex is free.   *)
(* unlock() by the holder frees it.  unlock() by a thread that does not    *)
(* hold it is undefined behaviour: the mutex is freed under its holder     *)
(* (a plain pthread mutex checks no owner) or the call has no effect (an   *)
(* owner-checking mutex).                                                  *)
(***************************************************************************)
CanLock == g_processMutex = Unlocked

UnlockOutcomes(t) ==
    IF g_processMutex = t THEN {Unlocked} ELSE {Unlocked, g_processMutex}

Goto(t, label) == pc' = [pc EXCEPT ![t] = label]

(***************************************************************************)
(* ManagedCallback::CreateProcess and ProcessCreated (main.cpp:33-38,      *)
(* 425-432).                                                               *)
(***************************************************************************)
\* the runtime calls the handler of the oldest raised notification
Entering(kind) ==
    /\ ~crashed
    /\ pc[CbThread] = "idle"
    /\ queue # <<>>
    /\ Head(queue).kind = kind

TakeEvent ==
    /\ cbEv' = Head(queue)
    /\ queue' = Tail(queue)
    /\ continueAtEntry' = continueCalls

\* a Continue that is issued twice
Continue_Twice(h) ==
    /\ continueCalls' = continueCalls + 2
    /\ procState' = IF h \in Handles /\ procState[h] \in {"attaching", "stopped"}
                    THEN [procState EXCEPT ![h] = "running"]
                    ELSE procState

\* ICorDebugController::Continue(0) on the process of the notification
Continue(h) ==
    /\ continueCalls' = continueCalls + 1
    /\ procState' = IF h \in Handles /\ procState[h] \in {"attaching", "stopped"}
                    THEN [procState EXCEPT ![h] = "running"]
                    ELSE procState

\* CreateProcess is called; ProcessCreated takes the lock_guard
CreateProcess_Lock ==
    /\ Entering("CreateProcess")
    /\ CanLock
    /\ TakeEvent
    /\ evalNotifyCalls' = 0
    /\ printCalls' = 0
    /\ g_processMutex' = CbThread
    /\ Goto(CbThread, "ProcessCreated")
    /\ UNCHANGED <<g_process, cvWaiting, facadeVars, outVars, nested, crashed,
                   procState, killed, nextProc, nEvents, continueCalls,
                   readVars, escVars, refVars, emitVars, opVars, histVars>>

\* AddRef; g_process = pProcess; the guard unlocks; Continue(0); return S_OK
CreateProcess_Body ==
    /\ ~crashed
    /\ pc[CbThread] = "ProcessCreated"
    /\ regRefs' = [regRefs EXCEPT ![cbEv.proc] = @ + 1]
    /\ g_process' = cbEv.proc
    /\ \E m \in UnlockOutcomes(CbThread) : g_processMutex' = m
    /\ Continue(cbEv.proc)
    /\ Goto(CbThread, "idle")
    /\ UNCHANGED <<cvWaiting, facadeVars, outVars, nested, cbEv, crashed,
                   queue, killed, nextProc, nEvents, continueAtEntry,
                   evalNotifyCalls, printCalls, readVars, escVars, refVars,
                   emitVars, opVars, exitHandled, terminated>>

(***************************************************************************)
(* ManagedCallback::ExitProcess and NotifyProcessExited (main.cpp:40-47,   *)
(* 434-441).                                                               *)
(***************************************************************************)
\* out_printf("*stopped,reason=\"exited\",exit-code=\"%i\"\n", 0); NotifyEvalComplete()
ExitProcess_Enter ==
    /\ Entering("ExitProcess")
    /\ TakeEvent
    /\ stdoutLine' = Line("*stopped,reason=exited,exit-code=%i", 0, 0, <<>>)
    /\ evalNotifyCalls' = 1
    /\ printCalls' = 1
    /\ Goto(CbThread, "NotifyProcessExited")
    /\ UNCHANGED <<regVars, facadeVars, g_lastStoppedThreadId, nested, crashed,
                   procState, killed, nextProc, nEvents, continueCalls,
                   readVars, escVars, refVars, emitVars, opVars, histVars>>

\* std::lock_guard<std::mutex> lock(g_processMutex)
NotifyProcessExited_Lock ==
    /\ ~crashed
    /\ pc[CbThread] = "NotifyProcessExited"
    /\ CanLock
    /\ g_processMutex' = CbThread
    /\ Goto(CbThread, "NotifyProcessExited_release")
    /\ UNCHANGED <<g_process, cvWaiting, facadeVars, outVars, nested, cbEv,
                   crashed, envVars, dispVars, readVars, escVars, refVars, emitVars, opVars, histVars>>

\* g_process->Release(); g_process = nullptr; g_processMutex.unlock().
\* With g_process == nullptr the Release() call dereferences a null pointer:
\* the program dies, or the call is passed over.
NotifyProcessExited_Unregister ==
    /\ ~crashed
    /\ pc[CbThread] = "NotifyProcessExited_release"
    /\ \/ /\ g_process = NoProcess
          /\ crashed' = TRUE
          /\ UNCHANGED <<g_process, g_processMutex, pc, exitHandled, regRefs>>
       \/ /\ crashed' = FALSE
          /\ g_process' = NoProcess
          /\ \E m \in UnlockOutcomes(CbThread) : g_processMutex' = m
          /\ exitHandled' = exitHandled \cup {cbEv.proc}
          /\ regRefs' = IF g_process \in Handles
                        THEN [regRefs EXCEPT ![g_process] = @ - 1]
                        ELSE regRefs
          /\ Goto(CbThread, "NotifyProcessExited_notify")
    /\ UNCHANGED <<cvWaiting, facadeVars, outVars, nested, cbEv, envVars,
                   dispVars, readVars, escVars, refVars, emitVars, opVars, terminated>>

\* g_processCV.notify_one(): wakes one of the threads blocked in wait, if any
NotifyProcessExited_Notify ==
    /\ ~crashed
    /\ pc[CbThread] = "NotifyProcessExited_notify"
    /\ IF cvWaiting = {}
       THEN /\ Goto(CbThread, "NotifyProcessExited_guard")
            /\ UNCHANGED cvWaiting
       ELSE \E w \in cvWaiting :
                /\ cvWaiting' = cvWaiting \ {w}
                /\ pc' = [pc EXCEPT ![CbThread] = "NotifyProcessExited_guard",
                                    ![w] = "WaitProcessExited_woken"]
    /\ UNCHANGED <<g_process, g_processMutex, facadeVars, outVars, nested, cbEv,
                   crashed, envVars, dispVars, readVars, escVars, refVars, emitVars, opVars, histVars>>

\* the lock_guard's destructor unlocks the mutex a second time; return S_OK
NotifyProcessExited_Guard ==
    /\ ~crashed
    /\ pc[CbThread] = "NotifyProcessExited_guard"
    /\ \E m \in UnlockOutcomes(CbThread) : g_processMutex' = m
    /\ Goto(CbThread, "idle")
    /\ UNCHANGED <<g_process, cvWaiting, facadeVars, outVars, nested, cbEv,
                   crashed, envVars, dispVars, readVars, escVars, refVars, emitVars, opVars, histVars>>

(***************************************************************************)
(* WaitProcessExited (main.cpp:49-54), called by TerminateProcess on the   *)
(* command thread and by any other context.                                *)
(***************************************************************************)
\* another context calls WaitProcessExited()
WaitProcessExited_Call(w) ==
    /\ ~crashed
    /\ pc[w] = "idle"
    /\ Goto(w, "WaitProcessExited")
    /\ UNCHANGED <<regVars, facadeVars, outVars, nested, cbEv, crashed, envVars,
                   dispVars, readVars, escVars, refVars, emitVars, opVars, histVars>>

\* std::unique_lock<std::mutex> lock(g_processMutex), and after a wake-up the
\* re-acquisition of the mutex inside wait
WaitProcessExited_Lock(t) ==
    /\ ~crashed
    /\ pc[t] \in {"WaitProcessExited", "WaitProcessExited_woken"}
    /\ CanLock
    /\ g_processMutex' = t
    /\ Goto(t, IF pc[t] = "WaitProcessExited" THEN "WaitProcessExited_test"
                ELSE "WaitProcessExited_retest")
    /\ UNCHANGED <<g_process, cvWaiting, facadeVars, outVars, nested, cbEv,
                   crashed, envVars, dispVars, readVars, escVars, refVars, emitVars, opVars, histVars>>

\* a wait without predicate: only the test on entry looks at the registry
MustBlock_FirstTestOnly(t) ==
    g_process # NoProcess /\ pc[t] = "WaitProcessExited_test"

\* "if (g_process)" on entry, and the predicate of wait(lock, pred) after every
\* wake-up: does thread t (go on to) block?
MustBlock(t) == g_process # NoProcess

\* if (g_process) wait(lock, []{return g_process == nullptr;}): with a process
\* registered the thread releases the mutex and blocks; else it goes on to return
WaitProcessExited_Test(t) ==
    /\ ~crashed
    /\ pc[t] \in {"WaitProcessExited_test", "WaitProcessExited_retest"}
    /\ IF MustBlock(t)
       THEN /\ \E m \in UnlockOutcomes(t) : g_processMutex' = m
            /\ cvWaiting' = cvWaiting \cup {t}
            /\ Goto(t, "WaitProcessExited_blocked")
       ELSE /\ Goto(t, "WaitProcessExited_return")
            /\ UNCHANGED <<g_processMutex, cvWaiting>>
    /\ UNCHANGED <<g_process, facadeVars, outVars, nested, cbEv, crashed,
                   envVars, dispVars, readVars, escVars, refVars, emitVars, opVars, histVars>>

\* a condition variable may wake a waiter that nobody notified
WaitProcessExited_SpuriousWakeup(t) ==
    /\ ~crashed
    /\ t \in cvWaiting
    /\ cvWaiting' = cvWaiting \ {t}
    /\ Goto(t, "WaitProcessExited_woken")
    /\ UNCHANGED <<g_process, g_processMutex, facadeVars, outVars, nested, cbEv,
                   crashed, envVars, dispVars, readVars, escVars, refVars, emitVars, opVars, histVars>>

\* the unique_lock's destructor unlocks; the function returns
WaitProcessExited_Return(t) ==
    /\ ~crashed
    /\ pc[t] = "WaitProcessExited_return"
    /\ \E m \in UnlockOutcomes(t) : g_processMutex' = m
    /\ Goto(t, IF t = CmdThread THEN "TerminateProcess_waited" ELSE "idle")
    /\ UNCHANGED <<g_process, cvWaiting, facadeVars, outVars, nested, cbEv,
                   crashed, envVars, dispVars, readVars, escVars, refVars, emitVars, opVars, histVars>>

(***************************************************************************)
(* The debuggee's runtime.                                                 *)
(***************************************************************************)
\* a debuggee that was killed, or that runs, exits: the runtime raises ExitProcess
RuntimeExit(h) ==
    /\ ~crashed
    /\ Alive(h)
    /\ h \in killed \/ procState[h] = "running"
    /\ procState' = [procState EXCEPT ![h] = "exited"]
    /\ queue' = Append(queue, Ev("ExitProcess", h, 0, FALSE))
    /\ UNCHANGED <<regVars, facadeVars, outVars, pc, nested, cbEv, crashed,
                   killed, nextProc, nEvents, dispVars, readVars, escVars, refVars, emitVars, opVars, histVars>>

(***************************************************************************)
(* Debugger::AttachToProcess (main.cpp:689-748).                           *)
(***************************************************************************)
\* bookkeeping of a facade call: what was called, and the state it was called in
OpEnter(name) ==
    /\ lastOp' = name
    /\ entryReg' = g_process
    /\ entrySession' = <<m_pProcess, m_pDebug>>

\* the calls of lines 703-737, in order
AttachSteps ==
    <<"GetCoreCLRPath", "CreateVersionStringFromModule",
      "CreateDebuggingInterfaceFromVersionEx", "QueryInterface", "Initialize",
      "SetManagedHandler", "DebugActiveProcess">>

\* where an attach may fail; "none" when every call succeeds
AttachFailures == {AttachSteps[i] : i \in DOMAIN AttachSteps} \cup {"none"}

\* the failing HRESULTs a native call may report
FailedStatus == {"E_FAIL", "E_INVALIDARG", "E_ACCESSDENIED"}

StepIndex(step) == CHOOSE i \in DOMAIN AttachSteps : AttachSteps[i] = step

\* the calls issued when the attach fails at failAt: every call up to the failing
\* one, and pCorDebug->Terminate() once Initialize has succeeded
AttachCalls(failAt) ==
    IF failAt = "none" THEN AttachSteps
    ELSE SubSeq(AttachSteps, 1, StepIndex(failAt))
         \o (IF failAt \in {"SetManagedHandler", "DebugActiveProcess"}
             THEN <<"ICorDebug::Terminate">> ELSE <<>>)

\* lines 703-747: locate the runtime, create and initialize the interface,
\* register the handler, attach; on success the runtime will raise CreateProcess
AttachBody(prior, failAt, st) ==
    /\ opCalls' = prior \o AttachCalls(failAt)
    /\ IF failAt = "none"
       THEN /\ opResult' = "S_OK"
            /\ m_pProcess' = nextProc
            /\ m_pDebug' = nextProc
            /\ nextProc' = nextProc + 1
            /\ procState' = [procState EXCEPT ![nextProc] = "attaching"]
            /\ queue' = Append(queue, Ev("CreateProcess", nextProc, 0, FALSE))
       ELSE /\ opResult' = (IF failAt = "GetCoreCLRPath" THEN "E_INVALIDARG" ELSE st)
            /\ UNCHANGED <<m_pProcess, m_pDebug, nextProc, procState, queue>>

\* AttachToProcess on a facade whose m_pProcess and m_pDebug are both null:
\* the registry is not consulted
AttachToProcess_Idle(failAt, st) ==
    /\ ~crashed
    /\ pc[CmdThread] = "idle"
    /\ nextProc <= MaxAttach
    /\ m_pProcess = NoProcess /\ m_pDebug = NoProcess
    /\ OpEnter("AttachToProcess")
    /\ AttachBody(<<>>, failAt, st)
    /\ UNCHANGED <<regVars, outVars, pc, nested, cbEv, crashed, killed, nEvents,
                   dispVars, readVars, escVars, refVars, emitVars, histVars>>

\* AttachToProcess with m_pProcess or m_pDebug set: lock_guard on g_processMutex
AttachToProcess_Lock ==
    /\ ~crashed
    /\ pc[CmdThread] = "idle"
    /\ nextProc <= MaxAttach
    /\ m_pProcess # NoProcess \/ m_pDebug # NoProcess
    /\ CanLock
    /\ g_processMutex' = CmdThread
    /\ OpEnter("AttachToProcess")
    /\ opResult' = ""
    /\ opCalls' = <<>>
    /\ Goto(CmdThread, "AttachToProcess_check")
    /\ UNCHANGED <<g_process, cvWaiting, facadeVars, outVars, nested, cbEv,
                   crashed, envVars, dispVars, readVars, escVars, refVars, emitVars, histVars>>

\* if (g_process) return E_FAIL (the guard unlocks); else g_processMutex.unlock()
\* and TerminateProcess() is called
AttachToProcess_Check ==
    /\ ~crashed
    /\ pc[CmdThread] = "AttachToProcess_check"
    /\ \E m \in UnlockOutcomes(CmdThread) : g_processMutex' = m
    /\ IF g_process # NoProcess
       THEN /\ opResult' = "E_FAIL"
            /\ Goto(CmdThread, "idle")
            /\ UNCHANGED nested
       ELSE /\ nested' = TRUE
            /\ Goto(CmdThread, "TerminateProcess")
            /\ UNCHANGED opResult
    /\ UNCHANGED <<g_process, cvWaiting, facadeVars, outVars, cbEv, crashed,
                   envVars, dispVars, readVars, escVars, refVars, emitVars, lastOp, opCalls, entryReg,
                   entrySession, histVars>>

\* TerminateProcess() has returned into AttachToProcess: the lock_guard's
\* destructor unlocks the mutex a second time, then lines 703-747 run
AttachToProcess_Guard(failAt, st) ==
    /\ ~crashed
    /\ pc[CmdThread] = "AttachToProcess_guard"
    /\ \E m \in UnlockOutcomes(CmdThread) : g_processMutex' = m
    /\ AttachBody(opCalls, failAt, st)
    /\ nested' = FALSE
    /\ Goto(CmdThread, "idle")
    /\ UNCHANGED <<g_process, cvWaiting, outVars, cbEv, crashed, killed, nEvents,
                   dispVars, readVars, escVars, refVars, emitVars, lastOp, entryReg, entrySession, histVars>>

(***************************************************************************)
(* Debugger::TerminateProcess (main.cpp:663-687).                          *)
(***************************************************************************)
\* what m_pProcess->Stop(0) does to a running debuggee
Stopped(h, stopOK) ==
    IF stopOK /\ h \in Handles /\ procState[h] = "running"
    THEN [procState EXCEPT ![h] = "stopped"] ELSE procState

\* lines 665-677: the null checks, Stop, the disabling of breakpoints and
\* steppers, CleanupAllModules, Terminate(0); then WaitProcessExited is called
TerminateProcess_Call(stopOK, killOK) ==
    /\ ~crashed
    /\ \/ pc[CmdThread] = "idle" /\ ~nested
       \/ pc[CmdThread] = "TerminateProcess" /\ nested
    /\ killOK => m_pProcess \in Handles /\ Alive(m_pProcess)
    /\ IF nested
       THEN UNCHANGED <<lastOp, entryReg, entrySession>>
       ELSE OpEnter("TerminateProcess")
    /\ IF m_pProcess = NoProcess \/ m_pDebug = NoProcess
       THEN /\ ~stopOK /\ ~killOK
            /\ opResult' = (IF nested THEN opResult ELSE "E_FAIL")
            /\ opCalls' = (IF nested THEN opCalls ELSE <<>>)
            /\ Goto(CmdThread, IF nested THEN "AttachToProcess_guard" ELSE "idle")
            /\ UNCHANGED <<procState, killed>>
       ELSE /\ opResult' = (IF nested THEN opResult ELSE "")
            /\ opCalls' = (IF nested THEN opCalls ELSE <<>>)
                          \o <<"Stop">>
                          \o (IF stopOK THEN <<"DisableAllBreakpointsAndSteppers">>
                              ELSE <<>>)
                          \o <<"CleanupAllModules", "Terminate">>
            /\ procState' = Stopped(m_pProcess, stopOK)
            /\ killed' = IF killOK THEN killed \cup {m_pProcess} ELSE killed
            /\ Goto(CmdThread, "WaitProcessExited")
    /\ UNCHANGED <<regVars, facadeVars, outVars, nested, cbEv, crashed, queue,
                   nextProc, nEvents, dispVars, readVars, escVars, refVars, emitVars, histVars>>

\* lines 680-686, after WaitProcessExited has returned: release the process,
\* terminate the interface, return S_OK
TerminateProcess_Finish ==
    /\ ~crashed
    /\ pc[CmdThread] = "TerminateProcess_waited"
    /\ opCalls' = opCalls \o <<"Release", "ICorDebug::Terminate">>
    /\ terminated' = terminated \cup {m_pProcess}
    /\ m_pProcess' = NoProcess
    /\ m_pDebug' = NoProcess
    /\ opResult' = (IF nested THEN opResult ELSE "S_OK")
    /\ Goto(CmdThread, IF nested THEN "AttachToProcess_guard" ELSE "idle")
    /\ UNCHANGED <<regVars, outVars, nested, cbEv, crashed, envVars, dispVars,
                   readVars, escVars, refVars, emitVars, lastOp, entryReg, entrySession, exitHandled,
                   regRefs>>

(***************************************************************************)
(* Debugger::DetachFromProcess (main.cpp:640-661).                         *)
(***************************************************************************)
\* what m_pProcess->Detach() does: a debuggee that is detached raises nothing more
Detached(h, stopOK, detachOK) ==
    IF stopOK /\ detachOK /\ h \in Handles /\ Alive(h)
    THEN [procState EXCEPT ![h] = "detached"]
    ELSE Stopped(h, stopOK)

DetachFromProcess(stopOK, detachOK) ==
    /\ ~crashed
    /\ pc[CmdThread] = "idle"
    /\ OpEnter("DetachFromProcess")
    /\ IF m_pProcess = NoProcess \/ m_pDebug = NoProcess
       THEN /\ ~stopOK /\ ~detachOK
            /\ opResult' = "E_FAIL"
            /\ opCalls' = <<>>
            /\ UNCHANGED <<facadeVars, procState, queue>>
       ELSE /\ detachOK => stopOK
            /\ opCalls' = <<"Stop">>
                          \o (IF stopOK
                              THEN <<"DisableAllBreakpointsAndSteppers", "Detach">>
                              ELSE <<>>)
                          \o <<"CleanupAllModules", "Release", "ICorDebug::Terminate">>
            /\ procState' = Detached(m_pProcess, stopOK, detachOK)
            /\ queue' = IF stopOK /\ detachOK
                        THEN SelectSeq(queue, LAMBDA e : e.proc # m_pProcess)
                        ELSE queue
            /\ m_pProcess' = NoProcess
            /\ m_pDebug' = NoProcess
            /\ opResult' = "S_OK"
    /\ UNCHANGED <<regVars, outVars, pc, nested, cbEv, crashed, killed, nextProc,
                   nEvents, dispVars, readVars, escVars, refVars, emitVars, histVars>>

(***************************************************************************)
(* EscapeMIValue (main.cpp:140-165).  A string is a sequence of            *)
(* characters; '"' and '\' stand for themselves, the control characters    *)
(* are named (NUL, BEL = \a, BS = \b, FF = \f, LF = \n, CR = \r, TAB = \t, *)
(* VT = \v).                                                               *)
(***************************************************************************)
EscapeSet == {"\"", "\\", "NUL", "BEL", "BS", "FF", "LF", "CR", "TAB", "VT"}

\* a switch whose cases store the character itself
Mnemonic_Raw(c) == c

\* the character stored at s[i + count] by each case of the switch
Mnemonic(c) ==
    CASE c = "\"" -> "\""
      [] c = "\\" -> "\\"
      [] c = "NUL" -> "0"
      [] c = "BEL" -> "a"
      [] c = "BS" -> "b"
      [] c = "FF" -> "f"
      [] c = "LF" -> "n"
      [] c = "CR" -> "r"
      [] c = "TAB" -> "t"
      [] c = "VT" -> "v"

\* the for loop from index i (1-based here): at a character of the escape set a
\* backslash is inserted before it, the character is overwritten by its mnemonic
\* and the index skips both
RECURSIVE EscapeLoop(_, _)
EscapeLoop(s, i) ==
    IF i > Len(s) THEN s
    ELSE IF s[i] \in EscapeSet
         THEN EscapeLoop(SubSeq(s, 1, i - 1) \o <<"\\", Mnemonic(s[i])>>
                         \o SubSeq(s, i + 1, Len(s)), i + 2)
         ELSE EscapeLoop(s, i + 1)

EscapeMIValue(str) == EscapeLoop(str, 1)

(***************************************************************************)
(* ManagedCallback: the handlers that touch no registry state              *)
(* (main.cpp:272-276, 326-423, 443-633).  Each runs to its return in one   *)
(* step.                                                                   *)
(***************************************************************************)
\* what the collaborators may hand back
\* PrintFrameLocation's output; empty when GetActiveFrame or the printer fails
FrameTexts == {<<>>, <<"f">>, <<"f", "\"">>}
\* module names, exception type names
Names == {<<>>, <<"a">>, <<"a", "\"", "b">>}
\* FindCurrentBreakpointId's id; 0 when it fails
BreakpointIds == 0..MaxThreadId

\* the variables no handler of this section writes
dispFrame ==
    <<regVars, facadeVars, pc, nested, crashed, killed, nextProc, nEvents,
      readVars, escVars, refVars, emitVars, opVars, histVars>>

\* a handler that resumes where the code does not
NoContinue_Resumes ==
    /\ continueCalls' = continueCalls + 1
    /\ UNCHANGED procState

NoContinue == UNCHANGED <<continueCalls, procState>>

\* a handler that does not record the thread
SetLastStoppedThread_Skipped(tid) == UNCHANGED g_lastStoppedThreadId

\* SetLastStoppedThread (main.cpp:221-228)
SetLastStoppedThread(tid) == g_lastStoppedThreadId' = tid

\* HandleEvent (main.cpp:272-276), used by Break, ExitThread, UnloadModule,
\* LoadClass, UnloadClass and ExitAppDomain
HandleEventCallbacks ==
    {"Break", "ExitThread", "UnloadModule", "LoadClass", "UnloadClass",
     "ExitAppDomain"}

HandleEvent(kind) ==
    /\ Entering(kind)
    /\ TakeEvent
    /\ stdoutLine' = Line("=message,text=\"event received %s\"", 0, 0, <<kind>>)
    /\ Continue(Head(queue).proc)
    /\ evalNotifyCalls' = 0
    /\ printCalls' = 1
    /\ UNCHANGED <<g_lastStoppedThreadId, dispFrame>>

Breakpoint(id, output) ==
    /\ Entering("Breakpoint")
    /\ TakeEvent
    /\ stdoutLine' = Line("*stopped,reason=\"breakpoint-hit\",thread-id=\"%i\",stopped-threads=\"all\",bkptno=\"%u\",frame={%s}",
                          Head(queue).tid, id, <<output>>)
    /\ SetLastStoppedThread(Head(queue).tid)
    /\ NoContinue
    /\ evalNotifyCalls' = 0
    /\ printCalls' = 1
    /\ UNCHANGED dispFrame

StepComplete(output) ==
    /\ Entering("StepComplete")
    /\ TakeEvent
    /\ stdoutLine' = Line("*stopped,reason=\"end-stepping-range\",thread-id=\"%i\",stopped-threads=\"all\",%s",
                          Head(queue).tid, 0, <<output>>)
    /\ SetLastStoppedThread(Head(queue).tid)
    /\ NoContinue
    /\ evalNotifyCalls' = 0
    /\ printCalls' = 1
    /\ UNCHANGED dispFrame

\* ICorDebugManagedCallback::Exception (main.cpp:376-405)
Exception(output, excType, excModule) ==
    /\ Entering("Exception")
    /\ TakeEvent
    /\ SetLastStoppedThread(Head(queue).tid)
    /\ IF Head(queue).unhandled
       THEN /\ stdoutLine' = Line("*stopped,reason=\"exception-received\",exception-stage=\"%s\",thread-id=\"%i\",stopped-threads=\"all\",%s",
                                  Head(queue).tid, 0, <<<<"unhandled">>, output>>)
            /\ NoContinue
       ELSE /\ stdoutLine' = Line("=message,text=\"Exception thrown: '%s' in %s\\n\",send-to=\"output-window\",source=\"target-exception\"",
                                  0, 0, <<excType, excModule>>)
            /\ Continue(Head(queue).proc)
    /\ evalNotifyCalls' = 0
    /\ printCalls' = 1
    /\ UNCHANGED dispFrame

\* EvalComplete and EvalException: NotifyEvalComplete(); return S_OK
EvalCallbacks == {"EvalComplete", "EvalException"}

EvalComplete(kind) ==
    /\ Entering(kind)
    /\ TakeEvent
    /\ evalNotifyCalls' = 1
    /\ printCalls' = 0
    /\ NoContinue
    /\ UNCHANGED <<outVars, dispFrame>>

CreateThread ==
    /\ Entering("CreateThread")
    /\ TakeEvent
    /\ stdoutLine' = Line("=thread-created,id=\"%i\"", Head(queue).tid, 0, <<>>)
    /\ Continue(Head(queue).proc)
    /\ evalNotifyCalls' = 0
    /\ printCalls' = 1
    /\ UNCHANGED <<g_lastStoppedThreadId, dispFrame>>

\* TryLoadModuleSymbols hands back name and symbolsLoaded; the line carries the
\* escaped name twice and the flag; Continue(0) follows whether or not
\* TryResolveBreakpointsForModule was called
LoadModule(name, symbolsLoaded) ==
    /\ Entering("LoadModule")
    /\ TakeEvent
    /\ stdoutLine' = Line("=library-loaded,id=\"{%s}\",target-name=\"%s\",host-name=\"%s\",symbols-loaded=\"%d\",base-address=\"0x%x\",size=\"%d\"",
                          0, IF symbolsLoaded THEN 1 ELSE 0,
                          <<EscapeMIValue(name), EscapeMIValue(name)>>)
    /\ Continue(Head(queue).proc)
    /\ evalNotifyCalls' = 0
    /\ printCalls' = 1
    /\ UNCHANGED <<g_lastStoppedThreadId, dispFrame>>

\* printf("DebuggerError\n"); return S_OK
DebuggerError ==
    /\ Entering("DebuggerError")
    /\ TakeEvent
    /\ stdoutLine' = Line("DebuggerError", 0, 0, <<>>)
    /\ NoContinue
    /\ evalNotifyCalls' = 0
    /\ printCalls' = 1
    /\ UNCHANGED <<g_lastStoppedThreadId, dispFrame>>

\* the handlers whose body is "Continue(0); return S_OK": LogMessage, LogSwitch,
\* CreateAppDomain, LoadAssembly and ICorDebugManagedCallback2::Exception
ContinueOnlyCallbacks ==
    {"LogMessage", "LogSwitch", "CreateAppDomain", "LoadAssembly", "Exception2"}

ContinueOnly(kind) ==
    /\ Entering(kind)
    /\ TakeEvent
    /\ Continue(Head(queue).proc)
    /\ evalNotifyCalls' = 0
    /\ printCalls' = 0
    /\ UNCHANGED <<outVars, dispFrame>>

\* the handlers whose body is "return S_OK"
ReturnOnlyCallbacks ==
    {"UnloadAssembly", "ControlCTrap", "NameChange", "UpdateModuleSymbols",
     "EditAndContinueRemap", "BreakpointSetError", "FunctionRemapOpportunity",
     "CreateConnection", "ChangeConnection", "DestroyConnection",
     "ExceptionUnwind", "FunctionRemapComplete", "MDANotification"}

ReturnOnly(kind) ==
    /\ Entering(kind)
    /\ TakeEvent
    /\ NoContinue
    /\ evalNotifyCalls' = 0
    /\ printCalls' = 0
    /\ UNCHANGED <<outVars, dispFrame>>

\* the callbacks that carry an ICorDebugThread
ThreadCallbacks == {"Breakpoint", "StepComplete", "CreateThread"}

\* the callbacks of this section
DispatchCallbacks ==
    HandleEventCallbacks \cup ThreadCallbacks \cup EvalCallbacks
    \cup ContinueOnlyCallbacks \cup ReturnOnlyCallbacks
    \cup {"Exception", "LoadModule", "DebuggerError"}

\* the notifications the runtime may raise about debuggee h
Notifications(h) ==
    {Ev(k, h, 0, FALSE) : k \in DispatchCallbacks \ (ThreadCallbacks \cup {"Exception"})}
    \cup {Ev(k, h, t, FALSE) : k \in ThreadCallbacks, t \in ThreadIds}
    \cup {Ev("Exception", h, t, u) : t \in ThreadIds, u \in BOOLEAN}

\* a running debuggee reaches an event: the runtime suspends it and raises the
\* notification
RuntimeNotify(ev) ==
    /\ ~crashed
    /\ nEvents < MaxEvents
    /\ procState[ev.proc] = "running"
    /\ procState' = [procState EXCEPT ![ev.proc] = "stopped"]
    /\ queue' = Append(queue, ev)
    /\ nEvents' = nEvents + 1
    /\ UNCHANGED <<regVars, facadeVars, outVars, pc, nested, cbEv, crashed,
                   killed, nextProc, dispVars, readVars, escVars, refVars, emitVars, opVars, histVars>>

\* the command path resumes a debuggee whose handler has returned without
\* resuming it
CommandContinue(h) ==
    /\ ~crashed
    /\ procState[h] = "stopped"
    /\ pc[CbThread] = "idle"
    /\ queue = <<>>
    /\ procState' = [procState EXCEPT ![h] = "running"]
    /\ UNCHANGED <<regVars, facadeVars, outVars, pc, nested, cbEv, crashed,
                   queue, killed, nextProc, nEvents, dispVars, readVars, escVars, refVars, emitVars, opVars,
                   histVars>>

(***************************************************************************)
(* NextOSPageAddress and SafeReadMemory (main.cpp:56-94).                  *)
(***************************************************************************)
AddrModulus == 2 ^ AddrBits
UlongModulus == 2 ^ UlongBits
OSPageSize == 2 ^ PageBits
Addresses == 0..(AddrModulus - 1)
Ulongs == 0..(UlongModulus - 1)

\* (addr+pageSize)&(~(pageSize-1)) in size_t arithmetic; the mask clears the
\* low PageBits bits
NextOSPageAddress(addr) ==
    LET sum == (addr + OSPageSize) % AddrModulus
    IN  sum - (sum % OSPageSize)

\* (ULONG)(NextOSPageAddress(offset) - offset): the size_t difference, truncated
FallbackSize(offset) ==
    ((NextOSPageAddress(offset) - offset + AddrModulus) % AddrModulus) % UlongModulus

\* one ICorDebugProcess::ReadMemory(offset, size, ..., &bytesRead): with ok it
\* stores a count n of at most size bytes; without, it leaves bytesRead alone
ReadMemory(bytesRead, size, ok, n) == IF ok THEN n ELSE bytesRead

ReadCounts(size, ok) == IF ok THEN 0..size ELSE {0}

\* std::lock_guard<std::mutex> lock(g_processMutex) of a call
\* SafeReadMemory(offset, lpBuffer, cb, lpcbBytesRead)
SafeReadMemory_Lock(offset, cb) ==
    /\ ~crashed
    /\ pc[CmdThread] = "idle"
    /\ CanLock
    /\ g_processMutex' = CmdThread
    /\ Goto(CmdThread, "SafeReadMemory")
    /\ readArgs' = <<offset, cb>>
    /\ readCalls' = <<>>
    /\ readResult' = <<>>
    /\ UNCHANGED <<g_process, cvWaiting, facadeVars, outVars, nested, cbEv,
                   crashed,
                   envVars, dispVars, emitVars, escVars, refVars, opVars, histVars>>

\* the body, to the return and the guard's unlock.  ok1/n1 and ok2/n2 are the
\* outcomes of the first and of the fallback ReadMemory.  Without a registered
\* process the function returns FALSE and leaves *lpcbBytesRead unwritten.
SafeReadMemory_Body(ok1, n1, ok2, n2) ==
    /\ ~crashed
    /\ pc[CmdThread] = "SafeReadMemory"
    /\ LET offset == readArgs[1]
           cb == readArgs[2]
           first == ReadMemory(0, cb, ok1, n1)
           cb2 == FallbackSize(offset)
       IN  IF g_process = NoProcess
           THEN /\ readResult' = <<FALSE>>
                /\ UNCHANGED readCalls
           ELSE IF ok1
           THEN /\ n1 \in ReadCounts(cb, ok1)
                /\ readCalls' = <<[addr |-> offset, cb |-> cb]>>
                /\ readResult' = <<TRUE, first>>
           ELSE /\ n2 \in ReadCounts(cb2, ok2)
                /\ readCalls' = <<[addr |-> offset, cb |-> cb],
                                  [addr |-> offset, cb |-> cb2]>>
                /\ readResult' = <<ok2, ReadMemory(first, cb2, ok2, n2)>>
    /\ \E m \in UnlockOutcomes(CmdThread) : g_processMutex' = m
    /\ Goto(CmdThread, "idle")
    /\ UNCHANGED <<g_process, cvWaiting, facadeVars, outVars, nested, cbEv,
                   crashed,
                   envVars, dispVars, readArgs, emitVars, escVars, refVars, opVars,
                   histVars>>

(***************************************************************************)
(* The lifecycle specification: the command thread drives the facade, the  *)
(* runtime's thread delivers CreateProcess and ExitProcess, other contexts *)
(* wait for the exit.                                                      *)
(***************************************************************************)
Init ==
    /\ g_process = NoProcess
    /\ g_processMutex = Unlocked
    /\ cvWaiting = {}
    /\ m_pProcess = NoProcess
    /\ m_pDebug = NoProcess
    /\ g_lastStoppedThreadId = 0
    /\ stdoutLine = NoLine
    /\ pc = [t \in Threads |-> "idle"]
    /\ nested = FALSE
    /\ cbEv = NoEvent
    /\ crashed = FALSE
    /\ g_outMutex = Unlocked
    /\ writing = {}
    /\ strArg = <<>>
    /\ escaped = <<>>
    /\ m_refCount = 1
    /\ deleted = FALSE
    /\ refCall = NoCall
    /\ held = [h \in Holders |-> IF h = "Debugger" THEN 1 ELSE 0]
    /\ queue = <<>>
    /\ procState = [h \in Handles |-> "none"]
    /\ killed = {}
    /\ nextProc = 1
    /\ nEvents = 0
    /\ continueCalls = 0
    /\ continueAtEntry = 0
    /\ evalNotifyCalls = 0
    /\ printCalls = 0
    /\ opCalls = <<>>
    /\ readCalls = <<>>
    /\ readArgs = <<>>
    /\ readResult = <<>>
    /\ lastOp = ""
    /\ opResult = ""
    /\ entryReg = NoProcess
    /\ entrySession = <<NoProcess, NoProcess>>
    /\ exitHandled = {}
    /\ terminated = {}
    /\ regRefs = [h \in Handles |-> 0]

LifecycleCallbackStep ==
    \/ CreateProcess_Lock
    \/ CreateProcess_Body
    \/ ExitProcess_Enter
    \/ NotifyProcessExited_Lock
    \/ NotifyProcessExited_Unregister
    \/ NotifyProcessExited_Notify
    \/ NotifyProcessExited_Guard

\* WaitProcessExited as run by the threads of set T
WaitStep(T) ==
    \/ \E t \in T : WaitProcessExited_Lock(t)
    \/ \E t \in T : WaitProcessExited_Test(t)
    \/ \E t \in T : WaitProcessExited_SpuriousWakeup(t)
    \/ \E t \in T : WaitProcessExited_Return(t)

FacadeStep ==
    \/ \E f \in AttachFailures, st \in FailedStatus : AttachToProcess_Idle(f, st)
    \/ AttachToProcess_Lock
    \/ AttachToProcess_Check
    \/ \E f \in AttachFailures, st \in FailedStatus : AttachToProcess_Guard(f, st)
    \/ \E stopOK \in BOOLEAN, killOK \in BOOLEAN : TerminateProcess_Call(stopOK, killOK)
    \/ TerminateProcess_Finish
    \/ \E stopOK \in BOOLEAN, detachOK \in BOOLEAN : DetachFromProcess(stopOK, detachOK)

Next ==
    \/ FacadeStep
    \/ LifecycleCallbackStep
    \/ WaitStep({CmdThread})
    \/ \E h \in Handles : RuntimeExit(h)

Spec == Init /\ [][Next]_vars

(***************************************************************************)
(* The state right after AttachToProcess has succeeded for the first time: *)
(* the facade holds process 1 and the runtime has raised CreateProcess.    *)
(***************************************************************************)
AttachedSession ==
    /\ g_process = NoProcess
    /\ g_processMutex = Unlocked
    /\ cvWaiting = {}
    /\ m_pProcess = 1
    /\ m_pDebug = 1
    /\ g_lastStoppedThreadId = 0
    /\ stdoutLine = NoLine
    /\ pc = [t \in Threads |-> "idle"]
    /\ nested = FALSE
    /\ cbEv = NoEvent
    /\ crashed = FALSE
    /\ g_outMutex = Unlocked
    /\ writing = {}
    /\ m_refCount = 1
    /\ deleted = FALSE
    /\ refCall = NoCall
    /\ held = [h \in Holders |-> IF h = "Debugger" THEN 1 ELSE 0]
    /\ queue = <<Ev("CreateProcess", 1, 0, FALSE)>>
    /\ procState = [h \in Handles |-> IF h = 1 THEN "attaching" ELSE "none"]
    /\ killed = {}
    /\ nextProc = 2
    /\ nEvents = 0
    /\ continueCalls = 0
    /\ continueAtEntry = 0
    /\ evalNotifyCalls = 0
    /\ printCalls = 0
    /\ opCalls = AttachSteps
    /\ readCalls = <<>>
    /\ readArgs = <<>>
    /\ readResult = <<>>
    /\ lastOp = "AttachToProcess"
    /\ opResult = "S_OK"
    /\ entryReg = NoProcess
    /\ entrySession = <<NoProcess, NoProcess>>
    /\ exitHandled = {}
    /\ terminated = {}
    /\ regRefs = [h \in Handles |-> 0]

InitAttached ==
    /\ AttachedSession
    /\ strArg = <<>>
    /\ escaped = <<>>

(***************************************************************************)
(* The dispatcher specification: one attached debuggee, every notification *)
(* the runtime may raise about it.                                         *)
(***************************************************************************)
DispatchCallbackStep ==
    \/ \E k \in HandleEventCallbacks : HandleEvent(k)
    \/ \E id \in BreakpointIds, output \in FrameTexts : Breakpoint(id, output)
    \/ \E output \in FrameTexts : StepComplete(output)
    \/ \E output \in FrameTexts, excType \in Names, excModule \in Names :
           Exception(output, excType, excModule)
    \/ \E k \in EvalCallbacks : EvalComplete(k)
    \/ CreateThread
    \/ \E name \in Names, symbolsLoaded \in BOOLEAN : LoadModule(name, symbolsLoaded)
    \/ DebuggerError
    \/ \E k \in ContinueOnlyCallbacks : ContinueOnly(k)
    \/ \E k \in ReturnOnlyCallbacks : ReturnOnly(k)

NextDispatch ==
    \/ LifecycleCallbackStep
    \/ DispatchCallbackStep
    \/ \E h \in Handles : \E ev \in Notifications(h) : RuntimeNotify(ev)
    \/ \E h \in Handles : CommandContinue(h)
    \/ \E h \in Handles : RuntimeExit(h)

SpecDispatch == InitAttached /\ [][NextDispatch]_vars

(***************************************************************************)
(* The exit-wait specification: one attached debuggee, and contexts that   *)
(* call WaitProcessExited at any time.                                     *)
(***************************************************************************)
NextWait ==
    \/ \E w \in Waiters : WaitProcessExited_Call(w)
    \/ WaitStep(Waiters)
    \/ LifecycleCallbackStep
    \/ \E h \in Handles : RuntimeExit(h)

SpecWait == InitAttached /\ [][NextWait]_vars

\* the scheduler runs every thread that can take a step, and a thread that
\* again and again finds the mutex free eventually gets it: the notification
\* thread goes through its handlers, and each waiter locks, tests and returns.
\* Nothing obliges a context to call, the debuggee to exit, or a wake-up to be
\* spurious.
WaiterRuns(w) ==
    \/ WaitProcessExited_Lock(w)
    \/ WaitProcessExited_Test(w)
    \/ WaitProcessExited_Return(w)

LiveSpecWait ==
    /\ SpecWait
    /\ SF_vars(LifecycleCallbackStep)
    /\ \A w \in Waiters : SF_vars(WaiterRuns(w))

(***************************************************************************)
(* The memory-read specification: one attached debuggee, and SafeReadMemory *)
(* called at any time with any address and length.                         *)
(***************************************************************************)
NextMem ==
    \/ \E offset \in Addresses, cb \in Ulongs : SafeReadMemory_Lock(offset, cb)
    \/ \E ok1 \in BOOLEAN, n1 \in Ulongs, ok2 \in BOOLEAN, n2 \in Ulongs :
           SafeReadMemory_Body(ok1, n1, ok2, n2)
    \/ LifecycleCallbackStep
    \/ \E h \in Handles : RuntimeExit(h)

SpecMem == InitAttached /\ [][NextMem]_vars

(***************************************************************************)
(* Properties.                                                             *)
(***************************************************************************)
\* the idle notification thread has last handled a notification of these kinds
Returned(kinds) == pc[CbThread] = "idle" /\ cbEv.kind \in kinds

StopClass(ev) ==
    \/ ev.kind \in {"Breakpoint", "StepComplete"}
    \/ ev.kind = "Exception" /\ ev.unhandled

\* C1: when the handler of a stop-class notification (Breakpoint, StepComplete,
\* Exception with unhandled = TRUE) has returned, the count of Continue calls
\* is what it was when the handler was entered.
C1_StopClassIssuesNoContinue ==
    (pc[CbThread] = "idle" /\ StopClass(cbEv)) => continueCalls = continueAtEntry

\* an unhandled exception has been reported, its thread recorded, and the
\* debuggee is still suspended
C1_Witness ==
    /\ Returned({"Exception"})
    /\ cbEv.unhandled
    /\ g_lastStoppedThreadId = cbEv.tid
    /\ stdoutLine.text[1] = <<"unhandled">>
    /\ procState[cbEv.proc] = "stopped"
    /\ continueCalls = continueAtEntry

\* C2: when the handler of thread created, module loaded, handled exception,
\* app-domain created or log message has returned, it has issued exactly one
\* Continue call.
C2_NonStopIssuesOneContinue ==
    (/\ pc[CbThread] = "idle"
     /\ \/ cbEv.kind \in {"CreateThread", "LoadModule", "CreateAppDomain", "LogMessage"}
        \/ cbEv.kind = "Exception" /\ ~cbEv.unhandled)
    => continueCalls = continueAtEntry + 1

\* a module whose name needs escaping has been announced without symbols, and
\* the debuggee runs again
C2_Witness ==
    /\ Returned({"LoadModule"})
    /\ stdoutLine.id = 0
    /\ stdoutLine.text[1] = <<"a", "\\", "\"", "b">>
    /\ procState[cbEv.proc] = "running"
    /\ continueCalls = continueAtEntry + 1

\* C3: when the handler of any notification other than breakpoint hit, step
\* complete, unhandled exception and process exited has returned, it has issued
\* a Continue call.
C3_EveryOtherNotificationResumes ==
    (/\ pc[CbThread] = "idle"
     /\ cbEv.kind \in DispatchCallbacks \cup {"CreateProcess"}
     /\ ~StopClass(cbEv))
    => continueCalls > continueAtEntry

\* C4: a debuggee whose TerminateProcess() call has returned S_OK has had its
\* process-exited notification run the unregister step.
C4_TerminateReturnsAfterExitHandled == terminated \subseteq exitHandled

\* C5: the notification thread never takes up a notification (process created
\* or process exited) of a debuggee whose TerminateProcess() call has already
\* returned.
C5_NoNotificationAfterTerminate ==
    [][(pc[CbThread] = "idle" /\ pc'[CbThread] # "idle")
       => cbEv'.proc \notin terminated]_vars

\* C6: every waiter that is blocked in WaitProcessExited when NotifyProcessExited
\* has run its unregister step eventually returns.
C6_BlockedWaitersReturn ==
    \A w \in Waiters :
        (pc[w] = "WaitProcessExited_blocked"
         /\ pc[CbThread] = "NotifyProcessExited_notify")
        ~> (pc[w] = "idle")

\* C7: no waiter is at the return of WaitProcessExited while a process is
\* registered.
C7_NoReturnWhileRegistered ==
    \A w \in Waiters : pc[w] = "WaitProcessExited_return" => g_process = NoProcess

\* a waiter woken with the process still registered is evaluating the predicate
\* again
C7_Witness ==
    \E w \in Waiters : pc[w] = "WaitProcessExited_retest" /\ g_process # NoProcess

\* C8: when AttachToProcess, called with a process in the registry, has
\* returned, it has failed, made no native call and left the session fields
\* as they were.
C8_AttachFailsWhileRegistered ==
    (/\ pc[CmdThread] = "idle"
     /\ lastOp = "AttachToProcess"
     /\ entryReg # NoProcess
     /\ g_process = entryReg)
    => (/\ opResult = "E_FAIL"
        /\ opCalls = <<>>
        /\ <<m_pProcess, m_pDebug>> = entrySession)

\* C9: a DetachFromProcess() call that returns success leaves the registry
\* holding no process.
C9_DetachEmptiesRegistry ==
    [][((\E stopOK \in BOOLEAN, detachOK \in BOOLEAN :
             DetachFromProcess(stopOK, detachOK))
        /\ opResult' = "S_OK")
       => g_process' = NoProcess]_vars

\* C10: when SafeReadMemory(offset, cb) has returned, the count it reports and
\* every size it asked of ReadMemory are at most cb, and a fallback read asked
\* for at most the bytes up to the next page boundary after offset.
C10_ReadStaysWithinRequest ==
    (pc[CmdThread] = "idle" /\ Len(readResult) = 2)
    => (/\ readResult[2] <= readArgs[2]
        /\ \A i \in 1..Len(readCalls) : readCalls[i].cb <= readArgs[2]
        /\ Len(readCalls) = 2
           => readCalls[2].cb <= OSPageSize - (readArgs[1] % OSPageSize))

\* thread t is at a statement that runs with the registry mutex acquired and
\* not yet released by it: between a lock and the unlock that belongs to it,
\* or in front of a guard's unlock
AboutToUnlock(t) ==
    pc[t] \in {"ProcessCreated", "NotifyProcessExited_release",
               "NotifyProcessExited_guard", "WaitProcessExited_test",
               "WaitProcessExited_retest", "WaitProcessExited_return",
               "AttachToProcess_check", "AttachToProcess_guard",
               "SafeReadMemory"}

\* C11: every context that is inside a registry critical section, or in front
\* of an unlock of the registry mutex, is the one context that holds the mutex.
C11_UnlockOnlyByHolder ==
    \A t \in Threads : AboutToUnlock(t) => g_processMutex = t

(***************************************************************************)
(* The output path (main.cpp:96-113): _out_printf writes under g_outMutex; *)
(* DebuggerError (main.cpp:502-505) calls printf.  A write to stdout takes *)
(* time: a thread is in `writing' from the start of vfprintf or printf to  *)
(* its end.  The handlers are followed here through their output call and  *)
(* their Continue; the command thread prints its responses with            *)
(* out_printf.                                                             *)
(***************************************************************************)
\* the handlers that print one line with out_printf
OutPrintfCallbacks ==
    HandleEventCallbacks
    \cup {"Breakpoint", "StepComplete", "Exception", "CreateThread", "LoadModule"}

\* the handlers of OutPrintfCallbacks and DebuggerError that call Continue(0)
ResumesAfterPrint(ev) ==
    \/ ev.kind \in HandleEventCallbacks \cup {"CreateThread", "LoadModule"}
    \/ ev.kind = "Exception" /\ ~ev.unhandled

\* a handler that prints is entered and reaches its output call; Exception
\* calls SetLastStoppedThread(pThread) on the way (main.cpp:388)
Handler_Print(kind) ==
    /\ Entering(kind)
    /\ TakeEvent
    /\ evalNotifyCalls' = 0
    /\ printCalls' = 0
    /\ IF kind = "Exception"
       THEN SetLastStoppedThread(Head(queue).tid)
       ELSE UNCHANGED g_lastStoppedThreadId
    /\ Goto(CbThread, IF kind = "DebuggerError" THEN "printf" ELSE "out_printf")
    /\ UNCHANGED <<regVars, facadeVars, stdoutLine, nested, crashed, procState,
                   killed, nextProc, nEvents, continueCalls, readVars, escVars, refVars, emitVars,
                   opVars, histVars>>

\* the command thread answers a command
Command_Respond ==
    /\ ~crashed
    /\ pc[CmdThread] = "idle"
    /\ Goto(CmdThread, "out_printf")
    /\ UNCHANGED <<regVars, facadeVars, outVars, nested, cbEv, crashed, envVars,
                   dispVars, readVars, escVars, refVars, emitVars, opVars, histVars>>

\* std::lock_guard<std::mutex> lock(g_outMutex)
out_printf_Lock(t) ==
    /\ ~crashed
    /\ pc[t] = "out_printf"
    /\ g_outMutex = Unlocked
    /\ g_outMutex' = t
    /\ Goto(t, "vfprintf")
    /\ UNCHANGED <<regVars, facadeVars, outVars, nested, cbEv, crashed, envVars,
                   dispVars, readVars, escVars, refVars, writing, opVars, histVars>>

\* vfprintf(stdout, fmt, arg) starts to write
out_printf_Write(t) ==
    /\ ~crashed
    /\ pc[t] = "vfprintf"
    /\ printCalls' = (IF t = CbThread THEN printCalls + 1 ELSE printCalls)
    /\ writing' = writing \cup {t}
    /\ Goto(t, "fflush")
    /\ UNCHANGED <<regVars, facadeVars, outVars, nested, cbEv, crashed, envVars,
                   continueCalls, continueAtEntry,
                   evalNotifyCalls, readVars, escVars, refVars, g_outMutex, opVars, histVars>>

\* the write and fflush(stdout) are done; the guard unlocks; _out_printf returns
out_printf_Unlock(t) ==
    /\ ~crashed
    /\ pc[t] = "fflush"
    /\ writing' = writing \ {t}
    /\ g_outMutex' = IF g_outMutex = t THEN Unlocked ELSE g_outMutex
    /\ Goto(t, IF t = CmdThread THEN "idle" ELSE "printed")
    /\ UNCHANGED <<regVars, facadeVars, outVars, nested, cbEv, crashed, envVars,
                   dispVars, readVars, escVars, refVars, opVars, histVars>>

\* DebuggerError: printf("DebuggerError\n") starts to write
DebuggerError_printf ==
    /\ ~crashed
    /\ pc[CbThread] = "printf"
    /\ printCalls' = printCalls + 1
    /\ writing' = writing \cup {CbThread}
    /\ Goto(CbThread, "printf_writing")
    /\ UNCHANGED <<regVars, facadeVars, outVars, nested, cbEv, crashed, envVars,
                   continueCalls, continueAtEntry,
                   evalNotifyCalls, readVars, escVars, refVars, g_outMutex, opVars, histVars>>

\* printf returns
DebuggerError_printed ==
    /\ ~crashed
    /\ pc[CbThread] = "printf_writing"
    /\ writing' = writing \ {CbThread}
    /\ Goto(CbThread, "printed")
    /\ UNCHANGED <<regVars, facadeVars, outVars, nested, cbEv, crashed, envVars,
                   dispVars, readVars, escVars, refVars, g_outMutex, opVars, histVars>>

\* the rest of the handler: SetLastStoppedThread(pThread) in Breakpoint and
\* StepComplete (main.cpp:345, 367), Continue(0) where it has one, return S_OK
Handler_Return ==
    /\ ~crashed
    /\ pc[CbThread] = "printed"
    /\ IF cbEv.kind \in {"Breakpoint", "StepComplete"}
       THEN SetLastStoppedThread(cbEv.tid)
       ELSE UNCHANGED g_lastStoppedThreadId
    /\ IF ResumesAfterPrint(cbEv) THEN Continue(cbEv.proc) ELSE NoContinue
    /\ Goto(CbThread, "idle")
    /\ UNCHANGED <<regVars, facadeVars, stdoutLine, nested, cbEv, crashed, queue,
                   killed, nextProc, nEvents, continueAtEntry, evalNotifyCalls,
                   printCalls,
                   readVars, escVars, refVars, emitVars, opVars, histVars>>

\* the notifications whose handlers print
PrintNotifications(h) ==
    {ev \in Notifications(h) : ev.kind \in OutPrintfCallbacks \cup {"DebuggerError"}}

NextOut ==
    \/ CreateProcess_Lock
    \/ CreateProcess_Body
    \/ \E h \in Handles : \E ev \in PrintNotifications(h) : RuntimeNotify(ev)
    \/ \E h \in Handles : CommandContinue(h)
    \/ \E k \in OutPrintfCallbacks \cup {"DebuggerError"} : Handler_Print(k)
    \/ Command_Respond
    \/ \E t \in {CmdThread, CbThread} : out_printf_Lock(t)
    \/ \E t \in {CmdThread, CbThread} : out_printf_Write(t)
    \/ \E t \in {CmdThread, CbThread} : out_printf_Unlock(t)
    \/ DebuggerError_printf
    \/ DebuggerError_printed
    \/ Handler_Return

SpecOut == InitAttached /\ [][NextOut]_vars

\* C12: at most one thread is inside a write to standard output, and every
\* thread inside a write holds the output mutex.
C12_WritesUnderOutputMutex ==
    /\ Cardinality(writing) <= 1
    /\ \A t \in writing : g_outMutex = t


\* C13: at the step of the process-exit handler that wakes the evaluation
\* waiters (NotifyEvalComplete), the registry holds no process.
C13_RegistryEmptyWhenEvalWaitersWoken ==
    [][(ExitProcess_Enter /\ evalNotifyCalls' = 1) => g_process' = NoProcess]_vars

(***************************************************************************)
(* EscapeMIValue applied to every string of a bounded alphabet.            *)
(***************************************************************************)
\* the ten characters of the escape set and three ordinary ones, among them
\* letters that are mnemonics
Alphabet == EscapeSet \cup {"a", "n", "0"}

Strings == UNION {[1..n -> Alphabet] : n \in 0..MaxStrLen}

InitEscape ==
    /\ AttachedSession
    /\ strArg \in Strings
    /\ escaped = <<>>

\* a caller takes the result of EscapeMIValue(str)
EscapeMIValue_Call ==
    /\ escaped = <<>>
    /\ escaped' = <<EscapeMIValue(strArg)>>
    /\ UNCHANGED <<regVars, facadeVars, outVars, pc, nested, cbEv, crashed,
                   envVars, dispVars, readVars, strArg, refVars, emitVars, opVars,
                   histVars>>

SpecEscape == InitEscape /\ [][EscapeMIValue_Call]_vars

\* the escape the protocol asks for, character by character
SpecifiedEscape(c) ==
    CASE c = "\"" -> <<"\\", "\"">>
      [] c = "\\" -> <<"\\", "\\">>
      [] c = "NUL" -> <<"\\", "0">>
      [] c = "BEL" -> <<"\\", "a">>
      [] c = "BS" -> <<"\\", "b">>
      [] c = "FF" -> <<"\\", "f">>
      [] c = "LF" -> <<"\\", "n">>
      [] c = "CR" -> <<"\\", "r">>
      [] c = "TAB" -> <<"\\", "t">>
      [] c = "VT" -> <<"\\", "v">>
      [] OTHER -> <<c>>

RECURSIVE EscapeByCharacter(_)
EscapeByCharacter(s) ==
    IF s = <<>> THEN <<>>
    ELSE SpecifiedEscape(Head(s)) \o EscapeByCharacter(Tail(s))

\* the character a backslash and mnemonic m stand for; "" when m is none
Unmnemonic(m) ==
    CASE m = "\"" -> "\""
      [] m = "\\" -> "\\"
      [] m = "0" -> "NUL"
      [] m = "a" -> "BEL"
      [] m = "b" -> "BS"
      [] m = "f" -> "FF"
      [] m = "n" -> "LF"
      [] m = "r" -> "CR"
      [] m = "t" -> "TAB"
      [] m = "v" -> "VT"
      [] OTHER -> ""

\* the matching unescape: a backslash and a mnemonic give one character,
\* anything else is copied
RECURSIVE Unescape(_)
Unescape(s) ==
    IF s = <<>> THEN <<>>
    ELSE IF Head(s) = "\\" /\ Len(s) >= 2 /\ Unmnemonic(s[2]) # ""
         THEN <<Unmnemonic(s[2])>> \o Unescape(Tail(Tail(s)))
         ELSE <<Head(s)>> \o Unescape(Tail(s))

\* C14: for every string, EscapeMIValue returns the string in which each
\* escape-set character is replaced by a backslash and its mnemonic and every
\* other character is kept in order; unescaping the result gives the string
\* back; a string without escape-set characters, and the empty string, are
\* returned unchanged.
C14_EscapeInvertible ==
    escaped # <<>>
    => /\ escaped[1] = EscapeByCharacter(strArg)
       /\ Unescape(escaped[1]) = strArg
       /\ (\A i \in 1..Len(strArg) : strArg[i] \in {"a", "n", "0"}) => escaped[1] = strArg
       /\ strArg = <<>> => escaped[1] = <<>>

\* a string of a backslash, a newline and the letter n has been escaped
C14_Witness ==
    /\ strArg = <<"\\", "LF", "n">>
    /\ escaped = <<<<"\\", "\\", "\\", "n", "n">>>>

\* s holds no quote, backslash or control character except as part of a
\* backslash-mnemonic pair
RECURSIVE NoRawSpecial(_)
NoRawSpecial(s) ==
    IF s = <<>> THEN TRUE
    ELSE IF Head(s) = "\\"
         THEN Len(s) >= 2 /\ Unmnemonic(s[2]) # "" /\ NoRawSpecial(Tail(Tail(s)))
         ELSE Len(SpecifiedEscape(Head(s))) = 1 /\ NoRawSpecial(Tail(s))

\* C15: in the line a module-loaded, exception, breakpoint or step-complete
\* handler has emitted, every embedded string (module name, exception type and
\* module name, frame text) is free of unescaped quotes, backslashes and control
\* characters.
C15_EmbeddedStringsEscaped ==
    Returned({"LoadModule", "Exception", "Breakpoint", "StepComplete"})
    => \A i \in 1..Len(stdoutLine.text) : NoRawSpecial(stdoutLine.text[i])

\* C16: for every thread id t, breakpoint id b and frame text f, the handler of
\* a breakpoint-hit notification writes exactly one line, the breakpoint-hit
\* line with t, b and f in its three places, and leaves the last-stopped-thread
\* value at t.
C16_BreakpointLineExact ==
    [][\A b \in BreakpointIds, f \in FrameTexts :
           Breakpoint(b, f)
           => /\ printCalls' = 1
              /\ stdoutLine' =
                     [form |-> "*stopped,reason=\"breakpoint-hit\",thread-id=\"%i\",stopped-threads=\"all\",bkptno=\"%u\",frame={%s}",
                      tid |-> Head(queue).tid, id |-> b, text |-> <<f>>]
              /\ g_lastStoppedThreadId' = Head(queue).tid]_vars

\* breakpoint 2 was hit on thread 1 in frame f, after another thread had stopped
C16_Witness ==
    /\ Returned({"Breakpoint"})
    /\ cbEv.tid = 1
    /\ stdoutLine.tid = 1
    /\ stdoutLine.id = 2
    /\ stdoutLine.text = <<<<"f">>>>
    /\ g_lastStoppedThreadId = 1
    /\ continueCalls >= 2

\* C17: when DetachFromProcess(), called while attached, has returned, it has
\* issued the detach call whether or not the stop call succeeded, followed by
\* module cleanup, release of the process and termination of the interface;
\* only the disabling of breakpoints and steppers depends on the stop call.
C17_DetachIssuedAfterFailedStop ==
    (pc[CmdThread] = "idle" /\ lastOp = "DetachFromProcess" /\ opResult = "S_OK")
    => opCalls \in
         {<<"Stop", "DisableAllBreakpointsAndSteppers", "Detach",
            "CleanupAllModules", "Release", "ICorDebug::Terminate">>,
          <<"Stop", "Detach",
            "CleanupAllModules", "Release", "ICorDebug::Terminate">>}

\* C18: when TerminateProcess(), called while attached, has returned and the
\* forced-kill call on the debuggee had reported failure, the status returned
\* is not success.
C18_KillFailureSurfaced ==
    (/\ pc[CmdThread] = "idle"
     /\ lastOp = "TerminateProcess"
     /\ entrySession[1] # NoProcess
     /\ entrySession[2] # NoProcess
     /\ entrySession[1] \notin killed)
    => opResult # "S_OK"

\* C19: an AttachToProcess call on an idle facade that finds no runtime image
\* returns the runtime-not-found status E_INVALIDARG, makes no native call after
\* the lookup and leaves the session fields null and the registry as it was; and
\* the status is not the already-attached status E_FAIL, nor one an attach that
\* failed in a native call returns.
C19_RuntimeNotFoundDistinct ==
    [][\A f \in AttachFailures, st \in FailedStatus :
           AttachToProcess_Idle(f, st)
           => /\ f = "GetCoreCLRPath"
                 => /\ opResult' = "E_INVALIDARG"
                    /\ opResult' # "E_FAIL"
                    /\ opCalls' = <<"GetCoreCLRPath">>
                    /\ m_pProcess' = NoProcess /\ m_pDebug' = NoProcess
                    /\ g_process' = g_process
              /\ f # "GetCoreCLRPath" => opResult' # "E_INVALIDARG"]_vars

(***************************************************************************)
(* ManagedCallback as a COM object (main.cpp:278-322).  Holders call       *)
(* QueryInterface and AddRef at any time and Release on references they    *)
(* own; nobody calls a destroyed object.                                   *)
(***************************************************************************)
\* the identities QueryInterface is asked for
Riids ==
    {"ICorDebugManagedCallback", "ICorDebugManagedCallback2", "IUnknown",
     "ICorDebugManagedCallback3", "IClassFactory"}

\* the identities the if-chain of QueryInterface answers
SupportedRiids_Wider ==
    {"ICorDebugManagedCallback", "ICorDebugManagedCallback2", "IUnknown",
     "ICorDebugManagedCallback3"}

SupportedRiids ==
    {"ICorDebugManagedCallback", "ICorDebugManagedCallback2", "IUnknown"}

\* ULONG m_refCount: MaxRefs keeps it far below the 2^32 at which it wraps,
\* and a holder releases only a reference it owns, so it never passes zero
QueryInterface(h, riid) ==
    /\ ~deleted
    /\ m_refCount < MaxRefs
    /\ IF riid \in SupportedRiids
       THEN /\ m_refCount' = m_refCount + 1
            /\ held' = [held EXCEPT ![h] = @ + 1]
            /\ refCall' = RefCall("QueryInterface", riid, "S_OK", TRUE, m_refCount)
       ELSE /\ refCall' = RefCall("QueryInterface", riid, "E_NOINTERFACE", FALSE,
                                  m_refCount)
            /\ UNCHANGED <<m_refCount, held>>
    /\ UNCHANGED <<deleted, regVars, facadeVars, outVars, pc, nested, cbEv,
                   crashed, envVars, dispVars, readVars, escVars, emitVars,
                   opVars, histVars>>

AddRef(h) ==
    /\ ~deleted
    /\ m_refCount < MaxRefs
    /\ m_refCount' = m_refCount + 1
    /\ held' = [held EXCEPT ![h] = @ + 1]
    /\ refCall' = RefCall("AddRef", "", m_refCount', FALSE, m_refCount)
    /\ UNCHANGED <<deleted, regVars, facadeVars, outVars, pc, nested, cbEv,
                   crashed, envVars, dispVars, readVars, escVars, emitVars,
                   opVars, histVars>>

\* count = InterlockedDecrement(&m_refCount); if (count == 0) delete this
Release(h) ==
    /\ ~deleted
    /\ held[h] > 0
    /\ m_refCount' = m_refCount - 1
    /\ deleted' = (m_refCount' = 0)
    /\ held' = [held EXCEPT ![h] = @ - 1]
    /\ refCall' = RefCall("Release", "", m_refCount', FALSE, m_refCount)
    /\ UNCHANGED <<regVars, facadeVars, outVars, pc, nested, cbEv, crashed,
                   envVars, dispVars, readVars, escVars, emitVars, opVars,
                   histVars>>

NextRef ==
    \/ \E h \in Holders, riid \in Riids : QueryInterface(h, riid)
    \/ \E h \in Holders : AddRef(h)
    \/ \E h \in Holders : Release(h)

SpecRef == InitAttached /\ [][NextRef]_vars

\* C20: after a QueryInterface call for the primary callback group, the
\* extended callback group or the generic identity, the call has succeeded and
\* the reference count is one more than before; after a call for any other
\* identity it has failed with E_NOINTERFACE and the count is what it was; and
\* the object is destroyed exactly when the last call was the Release that
\* brought the count to zero.
C20_QueryInterfaceAndLifetime ==
    /\ refCall.name = "QueryInterface"
       => IF refCall.riid \in {"ICorDebugManagedCallback",
                               "ICorDebugManagedCallback2", "IUnknown"}
          THEN /\ refCall.status = "S_OK"
               /\ refCall.iface
               /\ m_refCount = refCall.before + 1
          ELSE /\ refCall.status = "E_NOINTERFACE"
               /\ ~refCall.iface
               /\ m_refCount = refCall.before
    /\ deleted <=> (refCall.name = "Release" /\ m_refCount = 0)
    /\ ~deleted => m_refCount > 0

\* the runtime has asked for the extended callback group and holds two
\* references beside the Debugger's one
C20_Witness ==
    /\ refCall = RefCall("QueryInterface", "ICorDebugManagedCallback2", "S_OK",
                         TRUE, 2)
    /\ m_refCount = 3
    /\ held["Runtime"] = 2


\* C21: the registry owns exactly the reference of the handle it holds: a handle
\* that is not registered has no reference outstanding (none leaked by a second
\* registration that overwrote it), the registered handle has exactly one (it
\* was registered once, into an empty registry), and no handle has been
\* released more often than ProcessCreated acquired it.
C21_RegistryOwnsOneReference ==
    \A h \in Handles : regRefs[h] = IF g_process = h THEN 1 ELSE 0


\* C22: a step changes the last-stopped-thread value only if it is the handler
\* of a stop-class notification (breakpoint hit, step complete, unhandled
\* exception); the handler of any other notification, a handled exception
\* included, leaves it as it was.
C22_OnlyStopClassSetsLastStoppedThread ==
    [][g_lastStoppedThreadId' # g_lastStoppedThreadId
       => (DispatchCallbackStep /\ StopClass(Head(queue)))]_vars


\* C23: when the unregister step of a process-exited notification runs with
\* the registry empty, the program does not die of dereferencing the empty
\* handle, the registry stays empty, and the handler goes on to wake the exit
\* waiters.
C23_ExitWithEmptyRegistryIsSafe ==
    [][(NotifyProcessExited_Unregister /\ g_process = NoProcess)
       => /\ ~crashed'
          /\ g_process' = NoProcess
          /\ pc'[CbThread] = "NotifyProcessExited_notify"]_vars


\* C24: at the step that makes the *stopped line of a stop-class notification
\* for thread t visible on stdout (the write is flushed and out_printf
\* returns), the last-stopped-thread value is t, so a reader of the line that
\* then asks for the last stopped thread gets t and not an earlier stop's.
C24_LastStoppedThreadSetBeforeLineVisible ==
    [][(out_printf_Unlock(CbThread) /\ StopClass(cbEv))
       => g_lastStoppedThreadId' = cbEv.tid]_vars

====
